---- MODULE Spec2Model ----
(***************************************************************************)
(* Veterinary clinic record keeper (src/oop04/oop_hw04.py).                *)
(*                                                                         *)
(* The store db.clients is a list of Client objects, each owning a list of *)
(* Pet objects, each owning its pending appointment and its history.  The  *)
(* program never shares an object between two owners (every Pet and Client *)
(* is built by a constructor call and appended once), so objects are       *)
(* modelled as nested records and a reference to an object as its position *)
(* in the owning list.                                                     *)
(*                                                                         *)
(* Python values are records [t, n, s]: the type name, the numeric value   *)
(* (int, bool) and the characters (str).  Characters are one-element names;*)
(* "U00B2" is SUPERSCRIPT TWO and "U0661" is ARABIC-INDIC DIGIT ONE.       *)
(***************************************************************************)
EXTENDS Integers, Sequences, FiniteSets, TLC

VARIABLES
    clients,   \* db.clients: the in-memory list of Client objects
    file,      \* the persistent storage db.filename
    start,     \* the storage as it was when Database() was constructed
    pc,        \* where the program is: the menu loop, or how it ended
    last       \* the last call: operation, arguments, outcome

vars == <<clients, file, start, pc, last>>

----------------------------------------------------------------------------
(* Bounds of the model and constants of the program *)

MaxClients == 2
MaxPets == 1
MaxHist == 2

MinNameLen == 2
AgeLo == 0
AgeHi == 100
MinPhoneLen == 10
MaxPhoneLen == 11

----------------------------------------------------------------------------
(* Python values *)

PyStr(chars) == [t |-> "str", n |-> 0, s |-> chars]
PyInt(k) == [t |-> "int", n |-> k, s |-> <<>>]
PyBool(b) == [t |-> "bool", n |-> IF b THEN 1 ELSE 0, s |-> <<>>]
None == [t |-> "NoneType", n |-> 0, s |-> <<>>]

\* isinstance(value, str)
IsStr(value) == value.t = "str"

\* isinstance(value, int): bool is a subclass of int
IsInt(value) == value.t \in {"int", "bool"}

Fill(k, c) == [x \in 1..k |-> c]

\* str.isspace / str.isdigit / str.isdecimal of one character
CharIsSpace(c) == c = " "
CharIsDigit(c) == c \in {"0", "1", "2", "U00B2", "U0661"}
CharIsDecimal(c) == c \in {"0", "1", "2", "U0661"}
CharDigitValue(c) == IF c = "0" THEN 0 ELSE IF c = "2" THEN 2 ELSE 1

\* str.lower of one character
CharLower(c) == IF c = "A" THEN "a" ELSE IF c = "N" THEN "n" ELSE c

\* str.lower()
lower(s) == [x \in 1..Len(s) |-> CharLower(s[x])]

RECURSIVE lstrip(_)
lstrip(s) ==
    IF s # <<>> /\ CharIsSpace(Head(s)) THEN lstrip(Tail(s)) ELSE s

RECURSIVE rstrip(_)
rstrip(s) ==
    IF s # <<>> /\ CharIsSpace(s[Len(s)])
    THEN rstrip(SubSeq(s, 1, Len(s) - 1))
    ELSE s

\* str.strip()
strip(s) == rstrip(lstrip(s))

\* str.isdigit(): every character is a digit and there is at least one
isdigit(s) == s # <<>> /\ \A x \in 1..Len(s) : CharIsDigit(s[x])

RECURSIVE DecimalValue(_)
DecimalValue(s) ==
    IF s = <<>> THEN 0
    ELSE 10 * DecimalValue(SubSeq(s, 1, Len(s) - 1)) + CharDigitValue(s[Len(s)])

\* int(text): surrounding whitespace is dropped, an optional sign, then
\* decimal digits; anything else raises ValueError
int(text) ==
    LET body == strip(text)
        neg == body # <<>> /\ Head(body) = "-"
        digits == IF neg THEN Tail(body) ELSE body
    IN  IF digits = <<>> \/ \E x \in 1..Len(digits) : ~CharIsDecimal(digits[x])
        THEN [err |-> "ValueError: invalid literal for int()", val |-> None]
        ELSE [err |-> "",
              val |-> PyInt(IF neg THEN 0 - DecimalValue(digits)
                                 ELSE DecimalValue(digits))]

----------------------------------------------------------------------------
(* Descriptors: a call either raises or returns the instance updated *)

Raise(instance, msg) == [err |-> msg, obj |-> instance]
Return(instance) == [err |-> "", obj |-> instance]

\* a faulty variant: the value is stored before it is checked
Name__set__StoresFirst(instance, value) ==
    IF ~IsStr(value) \/ Len(strip(value.s)) < MinNameLen
    THEN Raise([instance EXCEPT !.name = value], "ValueError: name")
    ELSE Return([instance EXCEPT !.name = value])

Name__set__(instance, value) ==
    IF ~IsStr(value) \/ Len(strip(value.s)) < MinNameLen
    THEN Raise(instance, "ValueError: name")
    ELSE Return([instance EXCEPT !.name = value])

Age__set__(instance, value) ==
    IF ~IsInt(value) \/ ~(AgeLo < value.n /\ value.n < AgeHi)
    THEN Raise(instance, "ValueError: age")
    ELSE Return([instance EXCEPT !.age = value])

Phone__set__(instance, value) ==
    IF ~IsStr(value) \/ ~isdigit(value.s)
       \/ ~(MinPhoneLen <= Len(value.s) /\ Len(value.s) <= MaxPhoneLen)
    THEN Raise(instance, "ValueError: phone")
    ELSE Return([instance EXCEPT !.phone = value])

----------------------------------------------------------------------------
(* Pet *)

\* an instance whose __dict__ is still empty: the descriptors read None
BlankPet ==
    [name |-> None, age |-> None,
     scheduled_appointment |-> None, past_appointments |-> <<>>]

Pet__init__(name, age) ==
    LET r1 == Name__set__(BlankPet, name)
        r2 == Age__set__(r1.obj, age)
    IN  IF r1.err # "" THEN Raise(BlankPet, r1.err)
        ELSE IF r2.err # "" THEN Raise(BlankPet, r2.err)
        ELSE Return([r2.obj EXCEPT !.scheduled_appointment = None,
                                   !.past_appointments = <<>>])

\* a faulty variant: "if self.scheduled_appointment:" takes an empty date for no date
add_appointment_Truthy(self, date) ==
    IF self.scheduled_appointment # None /\ self.scheduled_appointment.s # <<>>
    THEN Raise(self, "ValueError: appointment already scheduled")
    ELSE Return([self EXCEPT !.scheduled_appointment = date])

add_appointment(self, date) ==
    IF self.scheduled_appointment # None
    THEN Raise(self, "ValueError: appointment already scheduled")
    ELSE Return([self EXCEPT !.scheduled_appointment = date])

\* a faulty variant: the slot is cleared before the record is built
complete_appointment_ClearsFirst(self, comment) ==
    Return([self EXCEPT
        !.past_appointments = Append(@, [date |-> None, comment |-> comment]),
        !.scheduled_appointment = None])

\* a faulty variant: the history is assigned a one-record list instead of appended to
complete_appointment_Overwrites(self, comment) ==
    Return([self EXCEPT
        !.past_appointments =
            <<[date |-> self.scheduled_appointment, comment |-> comment]>>,
        !.scheduled_appointment = None])

complete_appointment(self, comment) ==
    Return([self EXCEPT
        !.past_appointments =
            Append(@, [date |-> self.scheduled_appointment, comment |-> comment]),
        !.scheduled_appointment = None])

----------------------------------------------------------------------------
(* Client *)

BlankClient == [name |-> None, phone |-> None, pets |-> <<>>]

Client__init__(name, phone) ==
    LET r1 == Name__set__(BlankClient, name)
        r2 == Phone__set__(r1.obj, phone)
    IN  IF r1.err # "" THEN Raise(BlankClient, r1.err)
        ELSE IF r2.err # "" THEN Raise(BlankClient, r2.err)
        ELSE Return([r2.obj EXCEPT !.pets = <<>>])

add_pet(self, pet) == [self EXCEPT !.pets = Append(@, pet)]

----------------------------------------------------------------------------
(* pickle: the object graph as a flat stream of values.  Each list is      *)
(* written as its length followed by its items, each object as its         *)
(* __dict__ values in order.  Loading fills __dict__ directly: it runs no  *)
(* __init__ and no descriptor.                                             *)

RECURSIVE PickleRecords(_)
PickleRecords(recs) ==
    IF recs = <<>> THEN <<>>
    ELSE <<Head(recs).date, Head(recs).comment>> \o PickleRecords(Tail(recs))

PicklePet(pet) ==
    <<pet.name, pet.age, pet.scheduled_appointment,
      PyInt(Len(pet.past_appointments))>>
    \o PickleRecords(pet.past_appointments)

RECURSIVE PicklePets(_)
PicklePets(pets) ==
    IF pets = <<>> THEN <<>>
    ELSE PicklePet(Head(pets)) \o PicklePets(Tail(pets))

PickleClient(client) ==
    <<client.name, client.phone, PyInt(Len(client.pets))>>
    \o PicklePets(client.pets)

RECURSIVE PickleClients(_)
PickleClients(cs) ==
    IF cs = <<>> THEN <<>>
    ELSE PickleClient(Head(cs)) \o PickleClients(Tail(cs))

\* pickle.dump(self.clients, f)
pickle_dump(cs) == <<PyInt(Len(cs))>> \o PickleClients(cs)

Drop(toks, k) == SubSeq(toks, k + 1, Len(toks))

RECURSIVE UnpickleRecords(_, _)
UnpickleRecords(toks, k) ==
    IF k = 0 THEN [val |-> <<>>, rest |-> toks]
    ELSE LET r == UnpickleRecords(Drop(toks, 2), k - 1)
         IN  [val |-> <<[date |-> toks[1], comment |-> toks[2]]>> \o r.val,
              rest |-> r.rest]

\* a faulty variant: loading rebuilds each pet with Pet(name, age)
UnpicklePet_ViaInit(toks) ==
    LET h == UnpickleRecords(Drop(toks, 4), toks[4].n)
    IN  [val |-> Pet__init__(toks[1], toks[2]).obj, rest |-> h.rest]

UnpicklePet(toks) ==
    LET h == UnpickleRecords(Drop(toks, 4), toks[4].n)
    IN  [val |-> [name |-> toks[1], age |-> toks[2],
                  scheduled_appointment |-> toks[3],
                  past_appointments |-> h.val],
         rest |-> h.rest]

RECURSIVE UnpicklePets(_, _)
UnpicklePets(toks, k) ==
    IF k = 0 THEN [val |-> <<>>, rest |-> toks]
    ELSE LET p == UnpicklePet(toks)
             r == UnpicklePets(p.rest, k - 1)
         IN  [val |-> <<p.val>> \o r.val, rest |-> r.rest]

UnpickleClient(toks) ==
    LET ps == UnpicklePets(Drop(toks, 3), toks[3].n)
    IN  [val |-> [name |-> toks[1], phone |-> toks[2], pets |-> ps.val],
         rest |-> ps.rest]

RECURSIVE UnpickleClients(_, _)
UnpickleClients(toks, k) ==
    IF k = 0 THEN [val |-> <<>>, rest |-> toks]
    ELSE LET c == UnpickleClient(toks)
             r == UnpickleClients(c.rest, k - 1)
         IN  [val |-> <<c.val>> \o r.val, rest |-> r.rest]

\* pickle.load(f)
pickle_load(data) == UnpickleClients(Tail(data), Head(data).n).val

----------------------------------------------------------------------------
(* Database *)

NoFile == [exists |-> FALSE, data |-> <<>>]

\* Database.load: the clients read from the file, [] when there is no file
load(f) == IF f.exists THEN pickle_load(f.data) ELSE <<>>

\* Database.save: the file after open(filename, 'wb') and pickle.dump
save(cs) == [exists |-> TRUE, data |-> pickle_dump(cs)]

add_client(cs, client) == Append(cs, client)

RECURSIVE NameMatches(_, _, _)
NameMatches(cs, name, k) ==
    IF k > Len(cs) THEN <<>>
    ELSE (IF lower(cs[k].name.s) = lower(name.s) THEN <<k>> ELSE <<>>)
         \o NameMatches(cs, name, k + 1)

RECURSIVE ExactNameMatches(_, _, _)
ExactNameMatches(cs, name, k) ==
    IF k > Len(cs) THEN <<>>
    ELSE (IF cs[k].name.s = name.s THEN <<k>> ELSE <<>>)
         \o ExactNameMatches(cs, name, k + 1)

\* a faulty variant: the names are compared as they are
find_clients_by_name_CaseSensitive(cs, name) == ExactNameMatches(cs, name, 1)

\* the clients found, as their positions in db.clients, in list order
find_clients_by_name(cs, name) == NameMatches(cs, name, 1)

RECURSIVE PhoneMatches(_, _, _)
PhoneMatches(cs, phone, k) ==
    IF k > Len(cs) THEN <<>>
    ELSE (IF cs[k].phone = phone THEN <<k>> ELSE <<>>)
         \o PhoneMatches(cs, phone, k + 1)

find_clients_by_phone(cs, phone) == PhoneMatches(cs, phone, 1)

----------------------------------------------------------------------------
(* Sizes, for the guards that keep the model finite *)

RECURSIVE SumPets(_)
SumPets(cs) == IF cs = <<>> THEN 0 ELSE Len(Head(cs).pets) + SumPets(Tail(cs))

RECURSIVE SumHistPets(_)
SumHistPets(pets) ==
    IF pets = <<>> THEN 0
    ELSE Len(Head(pets).past_appointments) + SumHistPets(Tail(pets))

RECURSIVE SumHist(_)
SumHist(cs) ==
    IF cs = <<>> THEN 0 ELSE SumHistPets(Head(cs).pets) + SumHist(Tail(cs))

PetRefs(cs) == {<<i, j>> \in (1..MaxClients + 1) \X (1..MaxPets + 1) :
                    i <= Len(cs) /\ j <= Len(cs[i].pets)}

----------------------------------------------------------------------------
(* The record of a call *)

Call(op, i, j, a1, a2, err, ret) ==
    [op |-> op, i |-> i, j |-> j, a1 |-> a1, a2 |-> a2, err |-> err, ret |-> ret]

NoCall == Call("", 0, 0, None, None, "", <<>>)

\* the store with pet j of client i replaced
WithPet(cs, i, j, pet) == [cs EXCEPT ![i].pets[j] = pet]

----------------------------------------------------------------------------
(* Calls on the objects of the store (pc = "api": no menu is running) *)

\* clients[i].name = value
SetClientName(i, value) ==
    LET r == Name__set__(clients[i], value)
    IN  /\ pc = "api"
        /\ clients' = [clients EXCEPT ![i] = r.obj]
        /\ last' = Call("Client.name=", i, 0, value, None, r.err, <<>>)
        /\ UNCHANGED <<file, start, pc>>

\* clients[i].phone = value
SetClientPhone(i, value) ==
    LET r == Phone__set__(clients[i], value)
    IN  /\ pc = "api"
        /\ clients' = [clients EXCEPT ![i] = r.obj]
        /\ last' = Call("Client.phone=", i, 0, value, None, r.err, <<>>)
        /\ UNCHANGED <<file, start, pc>>

\* clients[i].pets[j].name = value
SetPetName(i, j, value) ==
    LET r == Name__set__(clients[i].pets[j], value)
    IN  /\ pc = "api"
        /\ clients' = WithPet(clients, i, j, r.obj)
        /\ last' = Call("Pet.name=", i, j, value, None, r.err, <<>>)
        /\ UNCHANGED <<file, start, pc>>

\* clients[i].pets[j].age = value
SetPetAge(i, j, value) ==
    LET r == Age__set__(clients[i].pets[j], value)
    IN  /\ pc = "api"
        /\ clients' = WithPet(clients, i, j, r.obj)
        /\ last' = Call("Pet.age=", i, j, value, None, r.err, <<>>)
        /\ UNCHANGED <<file, start, pc>>

\* Pet(name, age), the object not kept
NewPet(name, age) ==
    LET r == Pet__init__(name, age)
    IN  /\ pc = "api"
        /\ last' = Call("Pet", 0, 0, name, age, r.err, <<>>)
        /\ UNCHANGED <<clients, file, start, pc>>

\* Client(name, phone), the object not kept
NewClient(name, phone) ==
    LET r == Client__init__(name, phone)
    IN  /\ pc = "api"
        /\ last' = Call("Client", 0, 0, name, phone, r.err, <<>>)
        /\ UNCHANGED <<clients, file, start, pc>>

\* clients[i].pets[j].add_appointment(date)
Schedule(i, j, date) ==
    LET r == add_appointment(clients[i].pets[j], date)
    IN  /\ pc = "api"
        /\ clients' = WithPet(clients, i, j, r.obj)
        /\ last' = Call("add_appointment", i, j, date, None, r.err, <<>>)
        /\ UNCHANGED <<file, start, pc>>

\* clients[i].pets[j].complete_appointment(comment)
Complete(i, j, comment) ==
    LET r == complete_appointment(clients[i].pets[j], comment)
    IN  /\ pc = "api"
        /\ SumHist(clients) < MaxHist
        /\ clients' = WithPet(clients, i, j, r.obj)
        /\ last' = Call("complete_appointment", i, j, comment, None, r.err, <<>>)
        /\ UNCHANGED <<file, start, pc>>

\* db.add_client(Client(name, phone))
AddClient(name, phone) ==
    LET r == Client__init__(name, phone)
    IN  /\ pc = "api"
        /\ Len(clients) < MaxClients
        /\ clients' = IF r.err # "" THEN clients ELSE add_client(clients, r.obj)
        /\ last' = Call("add_client", 0, 0, name, phone, r.err, <<>>)
        /\ UNCHANGED <<file, start, pc>>

\* clients[i].add_pet(Pet(name, age))
AddPet(i, name, age) ==
    LET r == Pet__init__(name, age)
    IN  /\ pc = "api"
        /\ SumPets(clients) < MaxPets
        /\ clients' = IF r.err # "" THEN clients
                      ELSE [clients EXCEPT ![i] = add_pet(@, r.obj)]
        /\ last' = Call("add_pet", i, 0, name, age, r.err, <<>>)
        /\ UNCHANGED <<file, start, pc>>

\* db.find_clients_by_name(name)
FindByName(name) ==
    /\ pc = "api"
    /\ last' = Call("find_clients_by_name", 0, 0, name, None, "",
                    find_clients_by_name(clients, name))
    /\ UNCHANGED <<clients, file, start, pc>>

\* db.find_clients_by_phone(phone)
FindByPhone(phone) ==
    /\ pc = "api"
    /\ last' = Call("find_clients_by_phone", 0, 0, phone, None, "",
                    find_clients_by_phone(clients, phone))
    /\ UNCHANGED <<clients, file, start, pc>>

\* db.save(), after which the program is over
Save ==
    /\ pc = "api"
    /\ file' = save(clients)
    /\ pc' = "api saved"
    /\ last' = Call("save", 0, 0, None, None, "", <<>>)
    /\ UNCHANGED <<clients, start>>

\* Database() in the next run of the program: __init__ calls load
Load ==
    /\ pc = "api saved"
    /\ clients' = load(file)
    /\ start' = file
    /\ pc' = "api loaded"
    /\ last' = Call("load", 0, 0, None, None, "", <<>>)
    /\ UNCHANGED file

----------------------------------------------------------------------------
(* Inputs *)

NameAn == PyStr(<<"a", "n">>)
NameAN == PyStr(<<"A", "N">>)
NameNn == PyStr(<<"n", "n">>)
Phone10 == PyStr(Fill(MinPhoneLen, "0"))
Phone11 == PyStr(Fill(MaxPhoneLen, "1"))
Date1 == PyStr(<<"1">>)
Date2 == PyStr(<<"0", "1">>)
Healthy == PyStr(<<"a">>)

\* names: valid ones, too short ones (also once stripped), and non-strings
NameInputs ==
    {NameAn, NameAN, PyStr(<<" ", "a", "n">>),
     PyStr(<<"a">>), PyStr(<<" ", "a">>), PyStr(<<"a", " ">>), PyStr(<<" ", " ">>),
     PyInt(10)}

\* ages: around both ends of the range, and non-integers
AgeInputs ==
    {PyInt(k) : k \in {AgeLo - 1, AgeLo, AgeLo + 1, AgeLo + 2,
                       AgeHi - 1, AgeHi, AgeHi + 1}}
    \cup {PyBool(TRUE), PyBool(FALSE), PyStr(<<"1">>), None}

\* the characters a phone is tried with: an ASCII digit, a letter, a space,
\* a sign, and two non-ASCII characters that str.isdigit() accepts
PhoneChars == {"1", "a", " ", "-", "U00B2", "U0661"}

\* phones: every length around the range, ending in every character, and
\* strings of one repeated character; and non-strings
PhoneInputs ==
    {PyStr(Fill(k - 1, "0") \o <<c>>) :
        k \in (MinPhoneLen - 1)..(MaxPhoneLen + 1), c \in PhoneChars}
    \cup {PyStr(Fill(MinPhoneLen, c)) : c \in PhoneChars}
    \cup {Phone10, Phone11, PyStr(<<>>), PyInt(10), None}

----------------------------------------------------------------------------
(* The fields: assignments to, and constructions of, validated objects *)

Rex == [name |-> NameAn, age |-> PyInt(2),
        scheduled_appointment |-> Date1,
        past_appointments |-> <<[date |-> Date2, comment |-> Healthy]>>]

InitField ==
    /\ clients = <<[name |-> NameAn, phone |-> Phone10, pets |-> <<Rex>>]>>
    /\ file = NoFile
    /\ start = NoFile
    /\ pc = "api"
    /\ last = NoCall

\* constructor arguments: one argument varies while the other is valid, and
\* both invalid
PetArgs ==
    (NameInputs \X {PyInt(AgeLo + 1)}) \cup ({NameAn} \X AgeInputs)
    \cup {<<PyStr(<<"a">>), PyInt(AgeLo)>>}

ClientArgs ==
    (NameInputs \X {Phone10}) \cup ({NameAn} \X PhoneInputs)
    \cup {<<PyStr(<<"a">>), PyStr(<<"1">>)>>}

NextField ==
    \/ \E v \in NameInputs : SetClientName(1, v)
    \/ \E v \in PhoneInputs : SetClientPhone(1, v)
    \/ \E v \in NameInputs : SetPetName(1, 1, v)
    \/ \E v \in AgeInputs : SetPetAge(1, 1, v)
    \/ \E a \in PetArgs : NewPet(a[1], a[2])
    \/ \E a \in ClientArgs : NewClient(a[1], a[2])

SpecField == InitField /\ [][NextField]_vars

----------------------------------------------------------------------------
(* One pet: its pending appointment and its history *)

PetDates == {Date1, Date2, PyStr(<<>>)}
PetComments == {Healthy, PyStr(<<>>)}

InitPet ==
    /\ clients = <<[name |-> NameAn, phone |-> Phone10,
                    pets |-> <<Pet__init__(NameAn, PyInt(3)).obj>>]>>
    /\ file = NoFile
    /\ start = NoFile
    /\ pc = "api"
    /\ last = NoCall

NextPet ==
    \/ \E d \in PetDates : Schedule(1, 1, d)
    \/ \E c \in PetComments : Complete(1, 1, c)

SpecPet == InitPet /\ [][NextPet]_vars

----------------------------------------------------------------------------
(* The store: clients, pets and appointments added, searched, saved, loaded *)

\* what an earlier session may have left in the file
SavedBefore ==
    save(<<[name |-> NameAN, phone |-> Phone11,
            pets |-> <<[name |-> NameAn, age |-> PyInt(2),
                        scheduled_appointment |-> None,
                        past_appointments |->
                            <<[date |-> Date2, comment |-> Healthy]>>]>>]>>)

InitFiles == {NoFile, save(<<>>), SavedBefore}

StoreNames == {NameAn, NameAN, PyStr(<<"a">>)}
StorePhones == {Phone10, PyStr(<<"0">>)}
StoreAges == {PyInt(1), PyInt(0)}
Queries == {NameAn, NameAN, NameNn}

Init ==
    /\ file \in InitFiles
    /\ start = file
    /\ clients = load(file)
    /\ pc = "api"
    /\ last = NoCall

Next ==
    \/ \E n \in StoreNames, p \in StorePhones : AddClient(n, p)
    \/ \E i \in DOMAIN clients, a \in StoreAges : AddPet(i, NameAn, a)
    \/ \E r \in PetRefs(clients) : Schedule(r[1], r[2], Date1)
    \/ \E r \in PetRefs(clients) : Complete(r[1], r[2], Healthy)
    \/ \E r \in PetRefs(clients), a \in StoreAges : SetPetAge(r[1], r[2], a)
    \/ \E n \in Queries : FindByName(n)
    \/ \E p \in {Phone10, Phone11} : FindByPhone(p)
    \/ Save
    \/ Load

Spec == Init /\ [][Next]_vars

----------------------------------------------------------------------------
(* The interactive session: one action per menu choice, its prompts' answers
   being the action's inputs *)

\* find_client: the positions found; [] also for a wrong way of searching
find_client(cs, how, query) ==
    IF how = "1" THEN find_clients_by_name(cs, query)
    ELSE IF how = "2" THEN find_clients_by_phone(cs, query)
    ELSE <<>>

\* select_from_list: the chosen item, 0 for None; int() may raise
select_from_list(lst, text) ==
    LET choice == int(text)
    IN  IF choice.err # "" THEN [err |-> choice.err, val |-> 0]
        ELSE IF 1 <= choice.val.n /\ choice.val.n <= Len(lst)
        THEN [err |-> "", val |-> lst[choice.val.n]]
        ELSE [err |-> "", val |-> 0]

\* select_pet: the position of the chosen pet, 0 for None; int() may raise
select_pet(client, text) ==
    LET choice == int(text)
    IN  IF choice.err # "" THEN [err |-> choice.err, val |-> 0]
        ELSE IF 1 <= choice.val.n /\ choice.val.n <= Len(client.pets)
        THEN [err |-> "", val |-> choice.val.n]
        ELSE [err |-> "", val |-> 0]

\* the common head of new_appointment, complete_appointment and
\* view_appointments: the pet chosen (i, j), (0, 0) when the handler returns
\* early, or the exception that escapes
LocatePet(cs, how, query, t1, t2) ==
    LET results == find_client(cs, how, query)
        c == select_from_list(results, t1)
        p == select_pet(cs[c.val], t2)
        none == [err |-> "", i |-> 0, j |-> 0]
    IN  IF results = <<>> THEN none
        ELSE IF c.err # "" THEN [err |-> c.err, i |-> 0, j |-> 0]
        ELSE IF c.val = 0 THEN none
        ELSE IF cs[c.val].pets = <<>> THEN none
        ELSE IF p.err # "" THEN [err |-> p.err, i |-> c.val, j |-> 0]
        ELSE IF p.val = 0 THEN none
        ELSE [err |-> "", i |-> c.val, j |-> p.val]

\* the loop of add_client over the answers "да": each entry is a pet's name
\* and the text typed for its age
RECURSIVE AddPets(_, _)
AddPets(client, entries) ==
    IF entries = <<>> THEN Return(client)
    ELSE LET pet_age == int(Head(entries).age)
             r == Pet__init__(Head(entries).name, pet_age.val)
         IN  IF pet_age.err # "" THEN Raise(client, pet_age.err)
             ELSE IF r.err # "" THEN Raise(client, r.err)
             ELSE AddPets(add_pet(client, r.obj), Tail(entries))

\* choice '1': view_clients only prints
MenuViewClients ==
    /\ pc = "menu"
    /\ last' = Call("menu 1", 0, 0, None, None, "", <<>>)
    /\ UNCHANGED <<clients, file, start, pc>>

\* choice '2': add_client; every ValueError is caught and reported
MenuAddClient(name, phone, entries) ==
    /\ pc = "menu"
    /\ Len(clients) < MaxClients
    /\ SumPets(clients) + Len(entries) <= MaxPets
    /\ \E c \in {Client__init__(name, phone)} :
       \E r \in {IF c.err # "" THEN c ELSE AddPets(c.obj, entries)} :
        LET err == r.err
        IN
        /\ clients' = IF err # "" THEN clients ELSE add_client(clients, r.obj)
        /\ last' = Call("menu 2", 0, 0, name, phone, err, <<>>)
        /\ UNCHANGED <<file, start, pc>>

\* choice '3': new_appointment; nothing catches what it raises
MenuNewAppointment(how, query, t1, t2, date) ==
    /\ pc = "menu"
    /\ \E at \in {LocatePet(clients, how, query, t1, t2)} :
        LET r == add_appointment(clients[at.i].pets[at.j], date)
            err == IF at.err # "" \/ at.j = 0 THEN at.err ELSE r.err
        IN
        /\ clients' = IF at.err # "" \/ at.j = 0 THEN clients
                      ELSE WithPet(clients, at.i, at.j, r.obj)
        /\ pc' = IF err # "" THEN "crashed" ELSE "menu"
        /\ last' = Call("menu 3", at.i, at.j, query, date, err, <<>>)
        /\ UNCHANGED <<file, start>>

\* choice '4': complete_appointment, which returns when nothing is scheduled
MenuCompleteAppointment(how, query, t1, t2, comment) ==
    /\ pc = "menu"
    /\ SumHist(clients) < MaxHist
    /\ \E at \in {LocatePet(clients, how, query, t1, t2)} :
        LET pet == clients[at.i].pets[at.j]
            r == complete_appointment(pet, comment)
            done == at.err = "" /\ at.j # 0 /\ pet.scheduled_appointment # None
        IN
        /\ clients' = IF done THEN WithPet(clients, at.i, at.j, r.obj) ELSE clients
        /\ pc' = IF at.err # "" THEN "crashed" ELSE "menu"
        /\ last' = Call("menu 4", at.i, at.j, query, comment, at.err, <<>>)
        /\ UNCHANGED <<file, start>>

\* choice '5': view_appointments only prints
MenuViewAppointments(how, query, t1, t2) ==
    /\ pc = "menu"
    /\ \E at \in {LocatePet(clients, how, query, t1, t2)} :
        /\ pc' = IF at.err # "" THEN "crashed" ELSE "menu"
        /\ last' = Call("menu 5", at.i, at.j, query, None, at.err, <<>>)
        /\ UNCHANGED <<clients, file, start>>

\* choice '6': save and leave the loop
MenuSaveExit ==
    /\ pc = "menu"
    /\ file' = save(clients)
    /\ pc' = "saved"
    /\ last' = Call("menu 6", 0, 0, None, None, "", <<>>)
    /\ UNCHANGED <<clients, start>>

\* a faulty variant: leaving the loop saves as well
MenuExit_Saves ==
    /\ pc = "menu"
    /\ file' = save(clients)
    /\ pc' = "exited"
    /\ last' = Call("menu 7", 0, 0, None, None, "", <<>>)
    /\ UNCHANGED <<clients, start>>

\* choice '7': leave the loop
MenuExit ==
    /\ pc = "menu"
    /\ pc' = "exited"
    /\ last' = Call("menu 7", 0, 0, None, None, "", <<>>)
    /\ UNCHANGED <<clients, file, start>>

\* any other choice
MenuWrongChoice ==
    /\ pc = "menu"
    /\ last' = Call("menu ?", 0, 0, None, None, "", <<>>)
    /\ UNCHANGED <<clients, file, start, pc>>

\* the answers typed at the prompts
\* how to search and what for: by name, by phone, and a wrong choice
Finds == {<<"1", NameAn>>, <<"1", NameNn>>, <<"2", Phone10>>, <<"2", Phone11>>,
          <<"3", NameAn>>}
\* the two numbers typed, for the client and for the pet: in range, out of
\* range, and not a number
Picks ==
    {<<<<"1">>, <<"1">>>>, <<<<" ", "2">>, <<"1">>>>, <<<<"1">>, <<" ", "2">>>>,
     <<<<"0">>, <<"1">>>>, <<<<"1">>, <<"0">>>>,
     <<<<"a">>, <<"1">>>>, <<<<"1">>, <<"a">>>>}
\* a pet typed: valid, an age out of range, an age that is no number
PetEntries ==
    {[name |-> NameAn, age |-> <<"1">>], [name |-> NameAn, age |-> <<"-", "1">>],
     [name |-> NameAn, age |-> <<"a">>]}
EntryLists == UNION {[1..k -> PetEntries] : k \in 0..MaxPets}

InitCLI ==
    /\ start \in InitFiles
    /\ file = start
    /\ clients = load(file)
    /\ pc = "menu"
    /\ last = NoCall

NextCLI ==
    \/ MenuViewClients
    \/ \E n \in StoreNames, p \in StorePhones, es \in EntryLists :
            MenuAddClient(n, p, es)
    \/ \E f \in Finds, t \in Picks :
            MenuNewAppointment(f[1], f[2], t[1], t[2], Date1)
    \/ \E f \in Finds, t \in Picks :
            MenuCompleteAppointment(f[1], f[2], t[1], t[2], Healthy)
    \/ \E f \in Finds, t \in Picks :
            MenuViewAppointments(f[1], f[2], t[1], t[2])
    \/ MenuSaveExit
    \/ MenuExit
    \/ MenuWrongChoice

SpecCLI == InitCLI /\ [][NextCLI]_vars

----------------------------------------------------------------------------
(* Properties *)

IsPrefix(a, b) == Len(a) <= Len(b) /\ SubSeq(b, 1, Len(a)) = a

\* C1: add_appointment on a pet whose slot is set (not None) fails with the
\* conflict error and leaves the slot and the history as they were; on a pet
\* whose slot is None it succeeds and sets the slot to the date given.
C1_ScheduleConflictOrSet ==
    [][last'.op = "add_appointment" =>
        LET before == clients[last'.i].pets[last'.j]
            after == clients'[last'.i].pets[last'.j]
        IN  /\ after.past_appointments = before.past_appointments
            /\ IF before.scheduled_appointment # None
               THEN /\ last'.err = "ValueError: appointment already scheduled"
                    /\ after.scheduled_appointment = before.scheduled_appointment
               ELSE /\ last'.err = ""
                    /\ after.scheduled_appointment = last'.a1]_vars

\* a refused add_appointment: the slot keeps a date other than the one given
C1_Witness ==
    /\ last.op = "add_appointment"
    /\ last.err = "ValueError: appointment already scheduled"
    /\ clients[1].pets[1].scheduled_appointment \notin {None, last.a1}
    /\ clients[1].pets[1].past_appointments # <<>>

\* C2: complete_appointment on a pet with the appointment d pending appends
\* exactly the record {date: d, comment} to the history (one longer, the
\* earlier records as they were) and clears the slot, so that
\* add_appointment then succeeds.
C2_CompleteMovesToHistory ==
    [][(/\ last'.op = "complete_appointment"
        /\ clients[last'.i].pets[last'.j].scheduled_appointment # None) =>
        LET before == clients[last'.i].pets[last'.j]
            after == clients'[last'.i].pets[last'.j]
            n == Len(before.past_appointments)
        IN  /\ last'.err = ""
            /\ Len(after.past_appointments) = n + 1
            /\ SubSeq(after.past_appointments, 1, n) = before.past_appointments
            /\ after.past_appointments[n + 1].date = before.scheduled_appointment
            /\ after.past_appointments[n + 1].comment = last'.a1
            /\ after.scheduled_appointment = None
            /\ \A d \in PetDates : add_appointment(after, d).err = ""]_vars

\* a second appointment completed: two records, the last one dated
C2_Witness ==
    /\ last.op = "complete_appointment"
    /\ clients[1].pets[1].scheduled_appointment = None
    /\ Len(clients[1].pets[1].past_appointments) = 2
    /\ clients[1].pets[1].past_appointments[2].date = Date2
    /\ clients[1].pets[1].past_appointments[1].date = Date1

Setters == {"Client.name=", "Client.phone=", "Pet.name=", "Pet.age="}

\* C3: every assignment to name, age or phone is validated; a rejected
\* assignment leaves every object as it was, an accepted one changes that
\* field alone; a constructor call yields an object only when each argument
\* would be accepted by an assignment, and changes no existing object.
C3_RejectedAssignmentChangesNothing ==
    [][LET op == last'.op
           v == last'.a1
       IN  /\ (op \in Setters \cup {"Pet", "Client"} /\ last'.err # "")
                => (clients' = clients /\ file' = file)
           /\ (op \in {"Pet", "Client"}) => (clients' = clients /\ file' = file)
           /\ (op = "Client.name=" /\ last'.err = "")
                => clients' = [clients EXCEPT ![1].name = v]
           /\ (op = "Client.phone=" /\ last'.err = "")
                => clients' = [clients EXCEPT ![1].phone = v]
           /\ (op = "Pet.name=" /\ last'.err = "")
                => clients' = [clients EXCEPT ![1].pets[1].name = v]
           /\ (op = "Pet.age=" /\ last'.err = "")
                => clients' = [clients EXCEPT ![1].pets[1].age = v]
           /\ (op = "Pet") =>
                (last'.err = "" <=>
                    /\ Name__set__(clients[1].pets[1], v).err = ""
                    /\ Age__set__(clients[1].pets[1], last'.a2).err = "")
           /\ (op = "Client") =>
                (last'.err = "" <=>
                    /\ Name__set__(clients[1], v).err = ""
                    /\ Phone__set__(clients[1], last'.a2).err = "")]_vars

\* a rejected assignment after accepted ones: the values assigned before stay
C3_Witness ==
    /\ last.op = "Pet.age="
    /\ last.err = "ValueError: age"
    /\ clients[1].pets[1].age = PyInt(AgeHi - 1)
    /\ clients[1].pets[1].name = NameAN
    /\ clients[1].phone = Phone11

\* C4: an age is accepted exactly when it is an integer (no boolean, no
\* string) with 1 <= value <= 99, in an assignment and in a construction
\* whose name is valid.
C4_AgeAcceptedIffInteger1To99 ==
    LET age == IF last.op = "Pet" THEN last.a2 ELSE last.a1
    IN  (last.op = "Pet.age=" \/ (last.op = "Pet" /\ last.a1 = NameAn)) =>
            (last.err = "" <=> (age.t = "int" /\ 1 <= age.n /\ age.n <= 99))

AsciiDigits == {"0", "1", "2", "3", "4", "5", "6", "7", "8", "9"}

\* C5: a phone is accepted exactly when it is a string of 10 or 11
\* characters, each one of the decimal digits 0-9, in an assignment and in a
\* construction whose name is valid.
C5_PhoneAcceptedIffAsciiDigits ==
    LET phone == IF last.op = "Client" THEN last.a2 ELSE last.a1
    IN  (last.op = "Client.phone=" \/ (last.op = "Client" /\ last.a1 = NameAn)) =>
            (last.err = "" <=>
                /\ phone.t = "str"
                /\ Len(phone.s) \in {10, 11}
                /\ \A x \in 1..Len(phone.s) : phone.s[x] \in AsciiDigits)

\* C6: save followed by load from the same file gives back an equal list of
\* clients: the same clients in the same order, with the same names, phones,
\* pets, ages, pending appointments and histories.
C6_SaveLoadRoundTrip ==
    [][last'.op = "load" => (last.op = "save" /\ clients' = clients)]_vars

\* a loaded store with two clients, a pending appointment and a history
C6_Witness ==
    /\ last.op = "load"
    /\ Len(clients) = 2
    /\ \E r \in PetRefs(clients) :
        /\ clients[r[1]].pets[r[2]].scheduled_appointment # None
        /\ clients[r[1]].pets[r[2]].past_appointments # <<>>

\* the same letter, whatever its case
SameLetter(c, d) == c = d \/ {c, d} = {"a", "A"} \/ {c, d} = {"n", "N"}

SameIgnoringCase(a, b) ==
    Len(a.s) = Len(b.s) /\ \A x \in 1..Len(a.s) : SameLetter(a.s[x], b.s[x])

\* C7: find_clients_by_name returns, in the order of the store, exactly the
\* clients whose name is the one asked for up to the case of its letters,
\* leaves the store as it was, and returns the same for any query that
\* differs from this one only in the case of its letters.
C7_FindByNameIgnoresCase ==
    [][last'.op = "find_clients_by_name" =>
        LET ret == last'.ret
        IN  /\ clients' = clients /\ file' = file
            /\ \A x \in 1..Len(ret) - 1 : ret[x] < ret[x + 1]
            /\ {ret[x] : x \in 1..Len(ret)} =
                   {i \in 1..Len(clients) :
                        SameIgnoringCase(clients[i].name, last'.a1)}
            /\ \A q \in Queries :
                   SameIgnoringCase(q, last'.a1)
                       => find_clients_by_name(clients, q) = ret]_vars

\* a search that finds two clients whose names differ in case
C7_Witness ==
    /\ last.op = "find_clients_by_name"
    /\ last.ret = <<1, 2>>
    /\ clients[1].name # clients[2].name
    /\ last.a1 = clients[2].name

\* C8: no menu action with valid input ends the program with an exception:
\* the only crash is a malformed number typed at a prompt.
C8_NoCrashOnValidInput ==
    pc = "crashed" => last.err = "ValueError: invalid literal for int()"

C10_FileWrittenOnlyBySaveExit ==
    /\ pc # "saved" => file = start
    /\ pc = "saved" =>
        /\ last.op = "menu 6"
        /\ file.exists
        /\ pickle_load(file.data) = clients
    /\ pc # "menu" => ~ENABLED NextCLI

\* a session that changed the store and left without saving
C10_Witness ==
    /\ pc = "exited"
    /\ clients # load(start)
    /\ \E r \in PetRefs(clients) :
        clients[r[1]].pets[r[2]].scheduled_appointment # None

====
